---- MODULE Spec2Model ----
(***************************************************************************)
(* Model of the audio-graph lifecycle manager (useAudioGraph) and of the   *)
(* component state that feeds it (SpectrumPlayer).                         *)
(*                                                                         *)
(* Units: volume, eqPreGain and smoothing are in hundredths (0.9 -> 90),   *)
(* filter gains are in dB, frequencies in tenths of a hertz (31.5 -> 315), *)
(* Q in hundredths (4.31 -> 431).                                          *)
(***************************************************************************)
EXTENDS Integers, Sequences, FiniteSets, TLC

\* ---------------------------------------------------------------- bounds
\* Spec: Managers sharing the process-wide context and table, their
\* parameters fixed
MaxCalls    == 2     \* ensureGraph() invocations in one behaviour
MaxMounts   == 2     \* mounts in one behaviour
MaxSuspends == 1     \* times the host suspends the running context
\* SpecSingle: one SpectrumPlayer, its parameters changing
SingleCalls   == 1
SingleUpdates == 1
SingleMounts  == 1
\* SpecEq: one Manager, the band sliders of its equalizer moving
EqCalls   == 1
EqUpdates == 2
EqMounts  == 1
\* SpecPlayer: one SpectrumPlayer with its transport and its visualizer
PlayerCalls == 2     \* clicks on the play/pause button

FrameIds == 1..3     \* handles of requestAnimationFrame in use at a time
VisModes == {"bars+wave", "bars", "wave"}

Managers == {1, 2}   \* hook instances
Elements == {1, 2}   \* playback elements

\* input values offered to the setters
VolumeChoices    == {0}
PreGainChoices   == {50}
GainChoices      == {-15, 15}
BandChoices      == {0, 30}
FftChoices       == {256}
SmoothingChoices == {0}

\* ------------------------------------------------------ program constants
null        == 0      \* an empty ref / absent table entry
destination == -1     \* GLOBAL_AUDIO_CTX.destination

EQ_FREQUENCIES ==
  << 200, 250, 315, 400, 500, 630, 800, 1000, 1250, 1600, 2000, 2500, 3150,
     4000, 5000, 6300, 8000, 10000, 12500, 16000, 20000, 25000, 31500, 40000,
     50000, 63000, 80000, 100000, 125000, 160000, 200000 >>

\* useState initial values of SpectrumPlayer
InitialOpts ==
  [ fftSize     |-> 1024,
    smoothing   |-> 70,
    volume      |-> 90,
    eqGains     |-> [i \in 1..Len(EQ_FREQUENCIES) |-> 0],
    eqPreGain   |-> 100,
    isEqEnabled |-> TRUE ]

VARIABLES
  GLOBAL_AUDIO_CTX,  \* null or the id of the process-wide context
  ctxState,          \* "none" | "suspended" | "running" | "closed"
  MEDIA_SRC,         \* element -> source node id, or null
  nodes,             \* node store: node id -> attributes of the node
  conn,              \* outgoing connections: set of <<from, to>>
  audioRef,          \* per Manager: the element its ref points to, or null
  audioCtxRef,       \* per Manager refs
  srcNodeRef,
  gainRef,
  preGainRef,
  eqNodesRef,        \* per Manager: sequence of filter node ids
  analyserRef,
  opts,              \* per Manager: the GraphOptions its owner passes
  mounted,           \* per Manager: the owning scope is alive
  pending,           \* ensureGraph() calls suspended at `await resume()`
  \* history
  ctxCreated,        \* number of contexts ever constructed
  srcCreated,        \* element -> createMediaElementSource calls
  retired,           \* node ids whose references a disposal has cleared
  eqAtDispose,       \* per Manager: filter nodes held at its last disposal
  b2b,               \* ids of calls fired right after another call of the
                     \* same Manager, nothing in between
  doneCalls,         \* ids of calls that ran to completion
  lastOp,            \* the step taken last
  calls, updates, mounts, suspends,
  limit,             \* the bounds of the specification being checked
  \* SpectrumPlayer and its <audio> element
  errMsg,            \* the error message slot, "" when empty
  isPlaying,
  paused,            \* audio.paused
  lastPlay,          \* what the last play/pause toggle did to the element
  \* AnalyzerCanvas
  visMode,
  canvas,            \* the effect found a canvas with a 2d context
  rafRef,            \* null or the handle of the frame requested last
  frames             \* frame requests the host has not run or cancelled

vars ==
  << GLOBAL_AUDIO_CTX, ctxState, MEDIA_SRC, nodes, conn, audioRef,
     audioCtxRef, srcNodeRef, gainRef, preGainRef, eqNodesRef, analyserRef,
     opts, mounted, pending, ctxCreated, srcCreated, retired, eqAtDispose,
     b2b, doneCalls, lastOp, calls, updates, mounts, suspends, limit,
     errMsg, isPlaying, paused, lastPlay, visMode, canvas, rafRef, frames >>

globalVars  == << GLOBAL_AUDIO_CTX, ctxState, MEDIA_SRC, ctxCreated, srcCreated >>
nodeRefVars == << srcNodeRef, gainRef, preGainRef, eqNodesRef, analyserRef >>
budgetVars  == << calls, updates, mounts, suspends, limit >>
playerVars  == << errMsg, isPlaying, paused, lastPlay >>
canvasVars  == << visMode, canvas, rafRef, frames >>

Op(o, m, c, r) == [op |-> o, m |-> m, call |-> c, result |-> r]

\* ------------------------------------------------------------ host nodes
\* createMediaElementSource(audioEl)
SourceNode(el) == [kind |-> "source", element |-> el]

\* createGain(); g.gain.value = v
GainNode(v) == [kind |-> "gain", gain |-> v]

\* createBiquadFilter(); type peaking, frequency, Q 4.31, gain
BiquadNode(freq, g) == [kind |-> "peaking", frequency |-> freq, Q |-> 431, gain |-> g]

\* createAnalyser(); an.fftSize, an.smoothingTimeConstant
AnalyserNode(fs, sm) == [kind |-> "analyser", fftSize |-> fs, smoothingTimeConstant |-> sm]

\* a disconnect() that removes nothing
DisconnectKeeps(c, n) == c

\* node.disconnect(): removes every outgoing connection of n; a node with
\* no outgoing connection is left as it is
Disconnect(c, n) == { e \in c : e[1] # n }

\* a.connect(b): the connections of a node form a set
Connect(c, a, b) == c \cup { <<a, b>> }

\* eqGains[i] ?? 0   (i is the zero-based index of the code)
GainAt(g, i) == IF (i + 1) \in DOMAIN g THEN g[i + 1] ELSE 0

Range(s) == { s[i] : i \in DOMAIN s }


\* ------------------------------------------------- ensureGraph, the guards
\* the context guard dropped: a context is constructed by every call
NeedsContextAlways(g) == TRUE

\* if (!GLOBAL_AUDIO_CTX)
NeedsContext(g) == g = null

\* a table lookup that never finds the element
LookupSourceMiss(tbl, el) == null

\* MEDIA_SRC.get(audioEl)
LookupSource(tbl, el) == tbl[el]

\* the node guards dropped: gain, pre-gain and analyser are created by
\* every call
MissingAlways(ref) == TRUE

\* if (!gainRef.current), if (!preGainRef.current), if (!analyserRef.current)
Missing(ref) == ref = null

\* the filter guard dropped: the bands are rebuilt by every call
EqMissingAlways(eqs) == TRUE

\* if (eqNodesRef.current.length === 0)
EqMissing(eqs) == Len(eqs) = 0

\* the values an invocation closes over: ensureGraph is the callback of the
\* render in which it was invoked
Closure(id, m) ==
  [ id |-> id, m |-> m, audioEl |-> audioRef[m],
    fftSize |-> opts[m].fftSize, smoothing |-> opts[m].smoothing,
    volume |-> opts[m].volume, eqGains |-> opts[m].eqGains,
    eqPreGain |-> opts[m].eqPreGain ]

\* ------------------------------------------------ ensureGraph, the wiring
\* a chain that leaves the pre-gain stage out
ChainNodesNoPreGain(g, p, eqs, an) == <<g>> \o eqs \o <<an, destination>>

\* const nodes = [gain, preGain, ...eqNodes, analyser, destination]
ChainNodes(g, p, eqs, an) == <<g, p>> \o eqs \o <<an, destination>>

\* for (i = 0; i < nodes.length - 1; i++) { disconnect; connect(next) }
RECURSIVE WireChain(_, _, _)
WireChain(c, chain, i) ==
  IF i > Len(chain) - 1 THEN c
  ELSE WireChain(Connect(Disconnect(c, chain[i]), chain[i], chain[i + 1]),
                 chain, i + 1)

\* src.disconnect(); src.connect(nodes[0]); then the loop
Rewire(c, src, chain) == WireChain(Connect(Disconnect(c, src), src, chain[1]), chain, 1)

\* the new filter nodes, EQ_FREQUENCIES.map(...)
NewEqNodes(gains) ==
  [ i \in 1..Len(EQ_FREQUENCIES) |-> BiquadNode(EQ_FREQUENCIES[i], GainAt(gains, i - 1)) ]

\* Everything ensureGraph does after the resume step, for the call c of
\* Manager m: source lookup or creation, lazy node creation, rewiring.
EnsureTail(m, c, how) ==
  LET src0   == LookupSource(MEDIA_SRC, c.audioEl)
      mkSrc  == src0 = null
      n1     == IF mkSrc THEN Append(nodes, SourceNode(c.audioEl)) ELSE nodes
      src    == IF mkSrc THEN Len(n1) ELSE src0
      mkGain == Missing(gainRef[m])
      n2     == IF mkGain THEN Append(n1, GainNode(c.volume)) ELSE n1
      gain   == IF mkGain THEN Len(n2) ELSE gainRef[m]
      mkPre  == Missing(preGainRef[m])
      n3     == IF mkPre THEN Append(n2, GainNode(c.eqPreGain)) ELSE n2
      pre    == IF mkPre THEN Len(n3) ELSE preGainRef[m]
      mkEq   == EqMissing(eqNodesRef[m])
      n4     == IF mkEq THEN n3 \o NewEqNodes(c.eqGains) ELSE n3
      eqs    == IF mkEq THEN [i \in 1..Len(EQ_FREQUENCIES) |-> Len(n3) + i]
                ELSE eqNodesRef[m]
      mkAn   == Missing(analyserRef[m])
      n5     == IF mkAn THEN Append(n4, AnalyserNode(c.fftSize, c.smoothing)) ELSE n4
      an     == IF mkAn THEN Len(n5) ELSE analyserRef[m]
  IN  /\ MEDIA_SRC'   = [MEDIA_SRC EXCEPT ![c.audioEl] = src]
      /\ srcCreated'  = IF mkSrc THEN [srcCreated EXCEPT ![c.audioEl] = @ + 1]
                        ELSE srcCreated
      /\ nodes'       = n5
      /\ srcNodeRef'  = [srcNodeRef EXCEPT ![m] = src]
      /\ gainRef'     = [gainRef EXCEPT ![m] = gain]
      /\ preGainRef'  = [preGainRef EXCEPT ![m] = pre]
      /\ eqNodesRef'  = [eqNodesRef EXCEPT ![m] = eqs]
      /\ analyserRef' = [analyserRef EXCEPT ![m] = an]
      /\ conn'        = Rewire(conn, src, ChainNodes(gain, pre, eqs, an))
      /\ doneCalls'   = doneCalls \cup {c.id}
      /\ lastOp'      = Op(how, m, c.id, "done")

\* bookkeeping of an invocation: its id, and whether it directly follows
\* another invocation of the same Manager
Invoke(m) ==
  /\ mounted[m]
  /\ calls < limit.calls
  /\ calls' = calls + 1
  /\ b2b' = IF lastOp.op = "ensureGraph" /\ lastOp.m = m
            THEN b2b \cup {calls + 1} ELSE b2b
  /\ UNCHANGED << updates, mounts, suspends, limit >>

\* the element check moved behind the context step: the singleton is
\* constructed before the call returns
EnsureGraphNoElementCreates(m) ==
  /\ Invoke(m)
  /\ audioRef[m] = null
  /\ GLOBAL_AUDIO_CTX' = IF NeedsContext(GLOBAL_AUDIO_CTX) THEN ctxCreated + 1
                         ELSE GLOBAL_AUDIO_CTX
  /\ ctxCreated' = IF NeedsContext(GLOBAL_AUDIO_CTX) THEN ctxCreated + 1 ELSE ctxCreated
  /\ ctxState' = IF NeedsContext(GLOBAL_AUDIO_CTX) THEN "running" ELSE ctxState
  /\ lastOp' = Op("ensureGraph", m, calls + 1, "noop")
  /\ UNCHANGED << MEDIA_SRC, srcCreated, nodes, conn, audioRef, audioCtxRef,
                  nodeRefVars, opts, mounted, pending, retired, eqAtDispose,
                  doneCalls >>
  /\ UNCHANGED << playerVars, canvasVars >>

\* if (!audioEl) return;
EnsureGraphNoElement(m) ==
  /\ Invoke(m)
  /\ audioRef[m] = null
  /\ lastOp' = Op("ensureGraph", m, calls + 1, "noop")
  /\ UNCHANGED << globalVars, nodes, conn, audioRef, audioCtxRef, nodeRefVars,
                  opts, mounted, pending, retired, eqAtDispose, doneCalls >>
  /\ UNCHANGED << playerVars, canvasVars >>

\* a failed construction that leaves a context behind in the singleton
EnsureGraphCtxUnavailableKeeps(m) ==
  /\ Invoke(m)
  /\ audioRef[m] # null
  /\ NeedsContext(GLOBAL_AUDIO_CTX)
  /\ GLOBAL_AUDIO_CTX' = ctxCreated + 1
  /\ ctxCreated' = ctxCreated + 1
  /\ ctxState' = "suspended"
  /\ lastOp' = Op("ensureGraph", m, calls + 1, "throw")
  /\ UNCHANGED << MEDIA_SRC, srcCreated, nodes, conn, audioRef, audioCtxRef,
                  nodeRefVars, opts, mounted, pending, retired, eqAtDispose,
                  doneCalls >>
  /\ UNCHANGED << playerVars, canvasVars >>

\* new AudioContext() throws: the host cannot produce a context
EnsureGraphCtxUnavailable(m) ==
  /\ Invoke(m)
  /\ audioRef[m] # null
  /\ NeedsContext(GLOBAL_AUDIO_CTX)
  /\ lastOp' = Op("ensureGraph", m, calls + 1, "throw")
  /\ UNCHANGED << globalVars, nodes, conn, audioRef, audioCtxRef, nodeRefVars,
                  opts, mounted, pending, retired, eqAtDispose, doneCalls >>
  /\ UNCHANGED << playerVars, canvasVars >>

\* lines 143-147: create the singleton if absent (the host hands it out
\* suspended or running), remember it in audioCtxRef
ContextStep(m, s) ==
  /\ IF NeedsContext(GLOBAL_AUDIO_CTX)
     THEN /\ GLOBAL_AUDIO_CTX' = ctxCreated + 1
          /\ ctxCreated' = ctxCreated + 1
          /\ ctxState' = s
     ELSE /\ s = ctxState
          /\ UNCHANGED << GLOBAL_AUDIO_CTX, ctxCreated, ctxState >>
  /\ audioCtxRef' = [audioCtxRef EXCEPT ![m] = GLOBAL_AUDIO_CTX']

\* ------------------------------------- togglePlay, after `await ensureGraph()`
\* a refused play request that leaves no message
PlayRefusedSilently(m) ==
  /\ lastPlay' = "refused"
  /\ UNCHANGED << errMsg, isPlaying, paused >>

\* catch (err) { setErrMsg(err?.message || "Failed to play()") }: the host
\* refuses the request and the element stays paused
PlayRefused(m) ==
  /\ lastPlay' = "refused"
  /\ errMsg' = IF mounted[m] THEN "Failed to play()" ELSE errMsg
  /\ UNCHANGED << isPlaying, paused >>

\* await audio.play() accepted: the element leaves the paused state and its
\* play event reaches onPlay
PlayStarted(m) ==
  /\ lastPlay' = "started"
  /\ paused' = FALSE
  /\ isPlaying' = IF mounted[m] THEN TRUE ELSE isPlaying
  /\ errMsg' = errMsg

\* audio.pause(): the pause event reaches onPause
PlayPaused(m) ==
  /\ lastPlay' = "paused"
  /\ paused' = TRUE
  /\ isPlaying' = IF mounted[m] THEN FALSE ELSE isPlaying
  /\ errMsg' = errMsg

\* if (audio.paused) { try { await audio.play() } catch ... } else audio.pause()
PlayOrPause(m) ==
  IF paused THEN PlayStarted(m) \/ PlayRefused(m) ELSE PlayPaused(m)

\* what the caller of a completed ensureGraph() does next: togglePlay goes
\* on to the element, a direct caller has nothing more to do
Caller(m) ==
  IF limit.player THEN PlayOrPause(m) ELSE UNCHANGED playerVars

\* the context is suspended: the call stops at `await resume()`
EnsureGraphSuspend(m) ==
  /\ Invoke(m)
  /\ audioRef[m] # null
  /\ ContextStep(m, "suspended")
  /\ pending' = Append(pending, Closure(calls + 1, m))
  /\ lastOp' = Op("ensureGraph", m, calls + 1, "suspended")
  /\ UNCHANGED << MEDIA_SRC, srcCreated, nodes, conn, audioRef, nodeRefVars,
                  opts, mounted, retired, eqAtDispose, doneCalls >>
  /\ UNCHANGED << playerVars, canvasVars >>

\* the context is running: the call runs to its end without suspending
EnsureGraphSync(m) ==
  /\ Invoke(m)
  /\ audioRef[m] # null
  /\ ContextStep(m, "running")
  /\ EnsureTail(m, Closure(calls + 1, m), "ensureGraph")
  /\ Caller(m)
  /\ UNCHANGED << audioRef, opts, mounted, pending, retired, eqAtDispose >>
  /\ UNCHANGED canvasVars

\* resume() resolves: the oldest suspended call continues to its end
ResumeDone ==
  /\ pending # << >>
  /\ ctxState' = "running"
  /\ pending' = Tail(pending)
  /\ EnsureTail(Head(pending).m, Head(pending), "resume")
  /\ Caller(Head(pending).m)
  /\ UNCHANGED << GLOBAL_AUDIO_CTX, ctxCreated, audioRef, audioCtxRef, opts,
                  mounted, retired, eqAtDispose, b2b, budgetVars >>
  /\ UNCHANGED canvasVars

\* resume() rejects: the call fails at the await, nothing after it runs
ResumeFail ==
  /\ pending # << >>
  /\ pending' = Tail(pending)
  /\ lastOp' = Op("resume", Head(pending).m, Head(pending).id, "throw")
  /\ UNCHANGED << globalVars, nodes, conn, audioRef, audioCtxRef, nodeRefVars,
                  opts, mounted, retired, eqAtDispose, b2b, doneCalls,
                  budgetVars >>
  /\ UNCHANGED << playerVars, canvasVars >>

\* the host suspends the running context (policy, device loss)
HostSuspend ==
  /\ ctxState = "running"
  /\ suspends < MaxSuspends
  /\ suspends' = suspends + 1
  /\ ctxState' = "suspended"
  /\ lastOp' = Op("hostSuspend", null, null, "done")
  /\ UNCHANGED << GLOBAL_AUDIO_CTX, MEDIA_SRC, ctxCreated, srcCreated, nodes,
                  conn, audioRef, audioCtxRef, nodeRefVars, opts, mounted,
                  pending, retired, eqAtDispose, b2b, doneCalls, calls,
                  updates, mounts, limit >>
  /\ UNCHANGED << playerVars, canvasVars >>


\* ------------------------------------------------- reactive option effects
\* a volume effect that writes the volume into the pre-gain node as well
VolumeEffectMutesAll(ns, m, o) ==
  IF gainRef[m] # null
  THEN [ns EXCEPT ![gainRef[m]].gain = o.volume, ![preGainRef[m]].gain = o.volume]
  ELSE ns

\* if (gainRef.current) gainRef.current.gain.value = volume
VolumeEffect(ns, m, o) ==
  IF gainRef[m] # null THEN [ns EXCEPT ![gainRef[m]].gain = o.volume] ELSE ns

\* if (preGainRef.current) preGainRef.current.gain.value = eqPreGain
PreGainEffect(ns, m, o) ==
  IF preGainRef[m] # null THEN [ns EXCEPT ![preGainRef[m]].gain = o.eqPreGain] ELSE ns

\* eqNodesRef.current.forEach((eq, i) => eq.gain.value = eqGains[i] ?? 0)
EqGainsEffect(ns, m, o) ==
  [ n \in DOMAIN ns |->
      IF n \in Range(eqNodesRef[m])
      THEN LET i == CHOOSE j \in DOMAIN eqNodesRef[m] : eqNodesRef[m][j] = n
           IN  [ns[n] EXCEPT !.gain = GainAt(o.eqGains, i - 1)]
      ELSE ns[n] ]

\* if (analyserRef.current) { fftSize; smoothingTimeConstant }
AnalyserEffect(ns, m, o) ==
  IF analyserRef[m] # null
  THEN [ns EXCEPT ![analyserRef[m]].fftSize = o.fftSize,
                  ![analyserRef[m]].smoothingTimeConstant = o.smoothing]
  ELSE ns

\* every effect runs once when the scope mounts
AllEffects(ns, m, o) ==
  AnalyserEffect(EqGainsEffect(PreGainEffect(VolumeEffect(ns, m, o), m, o), m, o), m, o)

\* a state setter of the owner followed by the effect its change triggers
Update(m, name) ==
  /\ mounted[m]
  /\ updates < limit.updates
  /\ updates' = updates + 1
  /\ lastOp' = Op(name, m, null, "done")
  /\ UNCHANGED << globalVars, conn, audioRef, audioCtxRef, nodeRefVars, mounted,
                  pending, retired, eqAtDispose, b2b, doneCalls, calls, mounts,
                  suspends, limit >>
  /\ UNCHANGED << playerVars, canvasVars >>

\* the setter of a boolean: it takes nothing from the budget of changes
Toggle(m, name) ==
  /\ mounted[m]
  /\ limit.updates > 0
  /\ lastOp' = Op(name, m, null, "done")
  /\ UNCHANGED << globalVars, conn, audioRef, audioCtxRef, nodeRefVars, mounted,
                  pending, retired, eqAtDispose, b2b, doneCalls, budgetVars >>
  /\ UNCHANGED << playerVars, canvasVars >>

\* onVolume = setVolume
SetVolume(m, v) ==
  /\ Update(m, "setVolume")
  /\ v # opts[m].volume
  /\ opts' = [opts EXCEPT ![m].volume = v]
  /\ nodes' = VolumeEffect(nodes, m, opts'[m])

\* onPreGainChange = setEqPreGain
SetEqPreGain(m, v) ==
  /\ Update(m, "setEqPreGain")
  /\ v # opts[m].eqPreGain
  /\ opts' = [opts EXCEPT ![m].eqPreGain = v]
  /\ nodes' = PreGainEffect(nodes, m, opts'[m])

\* handleGainChange(index, value): copy, assign, setEqGains
handleGainChange(m, index, value) ==
  /\ Update(m, "handleGainChange")
  /\ opts' = [opts EXCEPT ![m].eqGains = [@ EXCEPT ![index + 1] = value]]
  /\ nodes' = EqGainsEffect(nodes, m, opts'[m])

\* setFftSize(parseInt(e.target.value))
SetFftSize(m, v) ==
  /\ Update(m, "setFftSize")
  /\ v # opts[m].fftSize
  /\ opts' = [opts EXCEPT ![m].fftSize = v]
  /\ nodes' = AnalyserEffect(nodes, m, opts'[m])

\* setSmoothing(parseFloat(e.target.value))
SetSmoothing(m, v) ==
  /\ Update(m, "setSmoothing")
  /\ v # opts[m].smoothing
  /\ opts' = [opts EXCEPT ![m].smoothing = v]
  /\ nodes' = AnalyserEffect(nodes, m, opts'[m])

\* a bypass toggle that zeroes the band gains when it disables the equalizer
SetIsEqEnabledResets(m) ==
  /\ Toggle(m, "setIsEqEnabled")
  /\ opts' = [opts EXCEPT ![m].isEqEnabled = ~@,
                          ![m].eqGains = IF opts[m].isEqEnabled
                                         THEN InitialOpts.eqGains ELSE @]
  /\ nodes' = EqGainsEffect(nodes, m, opts'[m])

\* onEnabledChange(!isEnabled) = setIsEqEnabled; useAudioGraph does not read
\* isEqEnabled, so no effect follows
SetIsEqEnabled(m) ==
  /\ Toggle(m, "setIsEqEnabled")
  /\ opts' = [opts EXCEPT ![m].isEqEnabled = ~@]
  /\ nodes' = nodes

\* ------------------------------------------- SpectrumPlayer, element events
\* onError: setErrMsg(`HTMLMediaError ...`) or "Unknown audio error"
MediaError(m) ==
  /\ limit.player
  /\ mounted[m]
  /\ errMsg' = "HTMLMediaError"
  /\ lastOp' = Op("onError", m, null, "mediaError")
  /\ UNCHANGED << globalVars, nodes, conn, audioRef, audioCtxRef, nodeRefVars,
                  opts, mounted, pending, retired, eqAtDispose, b2b, doneCalls,
                  budgetVars, isPlaying, paused, lastPlay, canvasVars >>

\* onPick: setErrMsg(""), audioEl.pause(), new src, load()
OnPick(m) ==
  /\ limit.player
  /\ mounted[m]
  /\ errMsg' = ""
  /\ paused' = TRUE
  /\ isPlaying' = FALSE
  /\ lastOp' = Op("onPick", m, null, "done")
  /\ UNCHANGED << globalVars, nodes, conn, audioRef, audioCtxRef, nodeRefVars,
                  opts, mounted, pending, retired, eqAtDispose, b2b, doneCalls,
                  budgetVars, lastPlay, canvasVars >>

\* --------------------------------------------- AnalyzerCanvas, render loop
\* a cleanup that cancels nothing
CancelFrameSkipped(fr, ref) == fr

\* if (rafRef.current) cancelAnimationFrame(rafRef.current)
CancelFrame(fr, ref) == IF ref # null THEN { f \in fr : f.id # ref } ELSE fr

\* the handle requestAnimationFrame returns: one that is not in use
NewFrameId(fr, ref) ==
  CHOOSE i \in FrameIds :
    /\ i \notin ({ f.id : f \in fr } \cup {ref})
    /\ \A j \in FrameIds : j \notin ({ f.id : f \in fr } \cup {ref}) => i <= j

\* requestAnimationFrame(render), render being the closure of the effect
\* that ran with the display mode `mode`
RequestFrame(fr, ref, mode) == fr \cup { [id |-> NewFrameId(fr, ref), mode |-> mode] }

\* a render that stops the loop when it finds no analysis node
AfterRenderStops(fr, f, analyser) ==
  IF analyser = null THEN fr \ {f} ELSE RequestFrame(fr \ {f}, f.id, f.mode)

\* render(): both exits end with rafRef.current = requestAnimationFrame(render)
AfterRender(fr, f, analyser) == RequestFrame(fr \ {f}, f.id, f.mode)

\* what render() put on the canvas
Drawn(f, analyser) == IF analyser = null THEN "blank" ELSE f.mode

\* the host runs a requested frame: render() draws and requests the next
Tick(m) ==
  /\ limit.player
  /\ m \in limit.managers
  /\ \E f \in frames :
       /\ frames' = AfterRender(frames, f, analyserRef[m])
       /\ rafRef' = NewFrameId(frames \ {f}, f.id)
       /\ lastOp' = Op("tick", m, f.id, Drawn(f, analyserRef[m]))
  /\ UNCHANGED << globalVars, nodes, conn, audioRef, audioCtxRef, nodeRefVars,
                  opts, mounted, pending, retired, eqAtDispose, b2b, doneCalls,
                  budgetVars, playerVars, visMode, canvas >>

\* the body of the effect: no canvas or no 2d context, no loop
CanvasEffect(ok, fr, mode) ==
  /\ canvas' = ok
  /\ frames' = IF ok THEN RequestFrame(fr, rafRef, mode) ELSE fr
  /\ rafRef' = IF ok THEN NewFrameId(fr, rafRef) ELSE rafRef

\* an effect cleanup that leaves the requested frame in place
CanvasCleanupKeeps(fr) == fr

\* the cleanup of the effect, registered only when the loop was started
CanvasCleanup(fr) == IF canvas THEN CancelFrame(fr, rafRef) ELSE fr

\* setVisMode(e.target.value): the effect is cleaned up and runs again with
\* the new mode
SetVisMode(m, v) ==
  /\ limit.player
  /\ mounted[m]
  /\ v # visMode
  /\ visMode' = v
  /\ CanvasEffect(canvas, CanvasCleanup(frames), v)
  /\ lastOp' = Op("setVisMode", m, null, "done")
  /\ UNCHANGED << globalVars, nodes, conn, audioRef, audioCtxRef, nodeRefVars,
                  opts, mounted, pending, retired, eqAtDispose, b2b, doneCalls,
                  budgetVars, playerVars >>

\* the effects of the visualizer when SpectrumPlayer mounts: the host may
\* have no 2d context to give
CanvasMount ==
  IF limit.player
  THEN /\ \E ok \in BOOLEAN : CanvasEffect(ok, frames, visMode)
       /\ visMode' = visMode
  ELSE UNCHANGED canvasVars

\* the cleanup of the visualizer when SpectrumPlayer unmounts
CanvasDispose ==
  IF limit.player
  THEN /\ frames' = CanvasCleanup(frames)
       /\ UNCHANGED << visMode, canvas, rafRef >>
  ELSE UNCHANGED canvasVars

\* ------------------------------------------------------ mount and disposal
\* the owning scope mounts: the ref is attached, the effects run
Mount(m, el) ==
  /\ m \in limit.managers
  /\ el \in limit.elements
  /\ ~mounted[m]
  /\ mounts < limit.mounts
  /\ mounts' = mounts + 1
  /\ mounted' = [mounted EXCEPT ![m] = TRUE]
  /\ audioRef' = [audioRef EXCEPT ![m] = el]
  /\ nodes' = AllEffects(nodes, m, opts[m])
  /\ lastOp' = Op("mount", m, null, "done")
  /\ CanvasMount
  /\ UNCHANGED << globalVars, conn, audioCtxRef, nodeRefVars, opts, pending,
                  retired, eqAtDispose, b2b, doneCalls, calls, updates,
                  suspends, limit >>
  /\ UNCHANGED playerVars

\* x?.disconnect()
DisconnectIfSet(c, ref) == IF ref # null THEN Disconnect(c, ref) ELSE c

\* a cleanup that forgets the filter bands
DisconnectAllSkipped(c, s) == c

\* eqNodesRef.current.forEach((eq) => eq.disconnect())
DisconnectAll(c, s) == { e \in c : e[1] \notin s }

\* the five disconnects of the cleanup
CleanupConnections(c, m) ==
  DisconnectIfSet(
    DisconnectAll(
      DisconnectIfSet(DisconnectIfSet(DisconnectIfSet(c, srcNodeRef[m]),
                                      gainRef[m]), preGainRef[m]),
      Range(eqNodesRef[m])),
    analyserRef[m])

\* a cleanup that leaves the reference in place
ClearedKeeps(ref) == ref

\* x.current = null
Cleared(ref) == null

\* eqNodesRef.current = []
ClearedEq(eqs) == << >>

\* the cleanup of the unmount effect
Dispose(m) ==
  /\ mounted[m]
  /\ mounted' = [mounted EXCEPT ![m] = FALSE]
  /\ conn' = CleanupConnections(conn, m)
  /\ srcNodeRef'  = [srcNodeRef EXCEPT ![m] = Cleared(@)]
  /\ gainRef'     = [gainRef EXCEPT ![m] = Cleared(@)]
  /\ preGainRef'  = [preGainRef EXCEPT ![m] = Cleared(@)]
  /\ eqNodesRef'  = [eqNodesRef EXCEPT ![m] = ClearedEq(@)]
  /\ analyserRef' = [analyserRef EXCEPT ![m] = Cleared(@)]
  /\ retired' = retired \cup (({gainRef[m], preGainRef[m], analyserRef[m]}
                               \cup Range(eqNodesRef[m])) \ {null})
  /\ eqAtDispose' = [eqAtDispose EXCEPT ![m] = eqNodesRef[m]]
  /\ lastOp' = Op("dispose", m, null, "done")
  /\ CanvasDispose
  /\ UNCHANGED << globalVars, nodes, audioRef, audioCtxRef, opts, pending, b2b,
                  doneCalls, budgetVars >>
  /\ UNCHANGED playerVars

\* ------------------------------------------------------------ the machine
Start ==
  /\ GLOBAL_AUDIO_CTX = null
  /\ ctxState = "none"
  /\ MEDIA_SRC = [e \in Elements |-> null]
  /\ nodes = << >>
  /\ conn = {}
  /\ audioRef = [m \in Managers |-> null]
  /\ audioCtxRef = [m \in Managers |-> null]
  /\ srcNodeRef = [m \in Managers |-> null]
  /\ gainRef = [m \in Managers |-> null]
  /\ preGainRef = [m \in Managers |-> null]
  /\ eqNodesRef = [m \in Managers |-> << >>]
  /\ analyserRef = [m \in Managers |-> null]
  /\ opts = [m \in Managers |-> InitialOpts]
  /\ mounted = [m \in Managers |-> FALSE]
  /\ pending = << >>
  /\ ctxCreated = 0
  /\ srcCreated = [e \in Elements |-> 0]
  /\ retired = {}
  /\ eqAtDispose = [m \in Managers |-> << >>]
  /\ b2b = {}
  /\ doneCalls = {}
  /\ lastOp = Op("init", null, null, "done")
  /\ calls = 0
  /\ updates = 0
  /\ mounts = 0
  /\ suspends = 0
  /\ errMsg = ""
  /\ isPlaying = FALSE
  /\ paused = TRUE
  /\ lastPlay = "none"
  /\ visMode = "bars+wave"
  /\ canvas = FALSE
  /\ rafRef = null
  /\ frames = {}

Init ==
  /\ Start
  /\ limit = [managers |-> Managers, elements |-> Elements, calls |-> MaxCalls,
              updates |-> 0, mounts |-> MaxMounts, player |-> FALSE]

\* a single SpectrumPlayer with its one Manager, whose <audio> element may
\* not be attached
InitSingle ==
  /\ Start
  /\ limit = [managers |-> {1}, elements |-> {null, 1}, calls |-> SingleCalls,
              updates |-> SingleUpdates, mounts |-> SingleMounts, player |-> FALSE]

\* one Manager with its element attached; only the band sliders move
InitEq ==
  /\ Start
  /\ limit = [managers |-> {1}, elements |-> {1}, calls |-> EqCalls,
              updates |-> EqUpdates, mounts |-> EqMounts, player |-> FALSE]

\* one SpectrumPlayer instance: it mounts once, its element is attached, and
\* ensureGraph() is called by togglePlay
InitPlayer ==
  /\ Start
  /\ limit = [managers |-> {1}, elements |-> {1}, calls |-> PlayerCalls,
              updates |-> 0, mounts |-> 1, player |-> TRUE]

\* mounts, disposals and ensureGraph() calls of Managers whose element is
\* attached
Next ==
  \/ \E m \in Managers, el \in Elements : Mount(m, el)
  \/ \E m \in Managers : Dispose(m)
  \/ \E m \in Managers : EnsureGraphCtxUnavailable(m)
  \/ \E m \in Managers : EnsureGraphSuspend(m)
  \/ \E m \in Managers : EnsureGraphSync(m)
  \/ ResumeDone
  \/ ResumeFail
  \/ HostSuspend

\* the same with an element that may be absent, and the parameter changes
\* of the owner
NextSingle ==
  \/ \E m \in Managers, el \in Elements \cup {null} : Mount(m, el)
  \/ \E m \in Managers : Dispose(m)
  \/ \E m \in Managers : EnsureGraphNoElement(m)
  \/ \E m \in Managers : EnsureGraphCtxUnavailable(m)
  \/ \E m \in Managers : EnsureGraphSuspend(m)
  \/ \E m \in Managers : EnsureGraphSync(m)
  \/ ResumeDone
  \/ ResumeFail
  \/ HostSuspend
  \/ \E m \in Managers, v \in VolumeChoices : SetVolume(m, v)
  \/ \E m \in Managers, v \in PreGainChoices : SetEqPreGain(m, v)
  \/ \E m \in Managers, i \in BandChoices, v \in GainChoices : handleGainChange(m, i, v)
  \/ \E m \in Managers, v \in FftChoices : SetFftSize(m, v)
  \/ \E m \in Managers, v \in SmoothingChoices : SetSmoothing(m, v)
  \/ \E m \in Managers : SetIsEqEnabled(m)

\* the Manager's life and the band sliders of the equalizer
NextEq ==
  \/ \E m \in Managers, el \in Elements : Mount(m, el)
  \/ \E m \in Managers : Dispose(m)
  \/ \E m \in Managers : EnsureGraphSuspend(m)
  \/ \E m \in Managers : EnsureGraphSync(m)
  \/ ResumeDone
  \/ \E m \in Managers, i \in BandChoices, v \in GainChoices : handleGainChange(m, i, v)

\* the play/pause button, the element's events, the file picker, the
\* display-mode selector and the frames of the visualizer
NextPlayer ==
  \/ \E m \in Managers, el \in Elements : Mount(m, el)
  \/ \E m \in Managers : Dispose(m)
  \/ \E m \in Managers : EnsureGraphCtxUnavailable(m)
  \/ \E m \in Managers : EnsureGraphSuspend(m)
  \/ \E m \in Managers : EnsureGraphSync(m)
  \/ ResumeDone
  \/ ResumeFail
  \/ HostSuspend
  \/ \E m \in Managers : MediaError(m)
  \/ \E m \in Managers : OnPick(m)
  \/ \E m \in Managers, v \in VisModes : SetVisMode(m, v)
  \/ \E m \in Managers : Tick(m)

Spec == Init /\ [][Next]_vars

SpecEq == InitEq /\ [][NextEq]_vars

SpecPlayer == InitPlayer /\ [][NextPlayer]_vars

\* the host keeps running the frames that are requested
SpecPlayerLive == InitPlayer /\ [][NextPlayer]_vars /\ WF_vars(\E m \in Managers : Tick(m))

SpecSingle == InitSingle /\ [][NextSingle]_vars


\* ------------------------------------------------------------- properties
\* the last step completed an ensureGraph() call of Manager m
Completed(m) ==
  /\ lastOp.op \in {"ensureGraph", "resume"}
  /\ lastOp.result = "done"
  /\ lastOp.m = m

\* the nodes a Manager created and still references
OwnNodes(m) ==
  ({gainRef[m], preGainRef[m], analyserRef[m]} \cup Range(eqNodesRef[m])) \ {null}

\* every node a Manager references, the shared source included
RefNodes(m) == OwnNodes(m) \cup ({srcNodeRef[m]} \ {null})

OutEdges(c, n) == { e \in c : e[1] = n }

SourceNodesOf(e) ==
  { n \in DOMAIN nodes : nodes[n].kind = "source" /\ nodes[n].element = e }

\* C1: for every element, whatever the sequence of ensureGraph() calls
\* (overlapping ones included) and of disposals, createMediaElementSource
\* has been called at most once, and exactly once as soon as the element
\* has a binding; no second source node of the element exists.
C1_OneSourcePerElement ==
  \A e \in Elements :
    /\ srcCreated[e] <= 1
    /\ Cardinality(SourceNodesOf(e)) = srcCreated[e]
    /\ (MEDIA_SRC[e] # null) <=> (srcCreated[e] = 1)
    /\ MEDIA_SRC[e] # null => SourceNodesOf(e) = {MEDIA_SRC[e]}

\* two overlapping calls (both suspended at resume) have completed, a
\* disposal having cleared nodes in between
C1_Witness ==
  /\ doneCalls = {1, 2}
  /\ 2 \in b2b
  /\ lastOp = Op("resume", lastOp.m, 2, "done")
  /\ retired # {}
  /\ srcCreated[nodes[srcNodeRef[lastOp.m]].element] = 1

\* follow the single outgoing connection of n for at most k hops
RECURSIVE Follow(_, _)
Follow(n, k) ==
  IF k = 0 \/ Cardinality(OutEdges(conn, n)) # 1 THEN n
  ELSE Follow((CHOOSE e \in OutEdges(conn, n) : TRUE)[2], k - 1)

\* the second of two back-to-back calls has just completed, the first
\* having completed before it
BackToBackDone(m) ==
  /\ Completed(m)
  /\ lastOp.call \in b2b
  /\ (lastOp.call - 1) \in doneCalls

\* C2: after two back-to-back ensureGraph() calls of a Manager have both
\* completed, the element has one source binding, every node of the chain
\* has exactly one outgoing connection, the walk from the source passes
\* through every node and ends at the destination, and of the Manager's
\* nodes only the analysis node is connected to the destination.
C2_BackToBackWiredOnce ==
  \A m \in Managers :
    BackToBackDone(m) =>
      /\ srcCreated[nodes[srcNodeRef[m]].element] = 1
      /\ \A n \in RefNodes(m) : Cardinality(OutEdges(conn, n)) = 1
      /\ Follow(srcNodeRef[m], Cardinality(RefNodes(m))) = destination
      /\ \A k \in 0..(Cardinality(RefNodes(m)) - 1) :
           Follow(srcNodeRef[m], k) \in RefNodes(m)
      /\ { n \in RefNodes(m) : <<n, destination>> \in conn } = {analyserRef[m]}

\* both calls ran without suspending, or both were suspended and resumed
C2_Witness ==
  \E m \in Managers :
    /\ BackToBackDone(m)
    /\ lastOp.op = "resume"
    /\ Len(eqNodesRef[m]) = Len(EQ_FREQUENCIES)
    /\ mounted[m]

\* every node of the Manager holds the current value of its parameter
Synced(m) ==
  /\ nodes[gainRef[m]].gain = opts[m].volume
  /\ nodes[preGainRef[m]].gain = opts[m].eqPreGain
  /\ \A i \in DOMAIN eqNodesRef[m] :
       nodes[eqNodesRef[m][i]].gain = GainAt(opts[m].eqGains, i - 1)
  /\ nodes[analyserRef[m]].fftSize = opts[m].fftSize
  /\ nodes[analyserRef[m]].smoothingTimeConstant = opts[m].smoothing

\* C3: whenever an ensureGraph() call of a Manager completes, each node of
\* the Manager holds the last-set value of its parameter, also when the
\* parameter was set before the nodes existed or while the call was
\* suspended at the resume step.
C3_LastSetValueReflected ==
  \A m \in Managers : Completed(m) => Synced(m)

\* C4: at most one context is ever constructed; once constructed it stays
\* the singleton, never closed nor replaced, and every Manager that got past
\* the context step references that same context.
C4_SingletonContext ==
  /\ ctxCreated <= 1
  /\ ctxCreated = 0 => GLOBAL_AUDIO_CTX = null /\ ctxState = "none"
  /\ ctxCreated = 1 => GLOBAL_AUDIO_CTX = 1 /\ ctxState \in {"suspended", "running"}
  /\ \A m \in Managers : audioCtxRef[m] \in {null, GLOBAL_AUDIO_CTX}
  /\ \A m \in Managers :
       (lastOp.op = "ensureGraph" /\ lastOp.m = m /\ lastOp.result \in {"suspended", "done"})
         => audioCtxRef[m] = GLOBAL_AUDIO_CTX /\ audioCtxRef[m] # null

\* two Managers use the context and one of them has just been disposed
C4_Witness ==
  /\ lastOp.op = "dispose"
  /\ GLOBAL_AUDIO_CTX # null
  /\ \A m \in Managers : audioCtxRef[m] = GLOBAL_AUDIO_CTX
  /\ doneCalls # {}

\* the connections source -> gain -> pre-gain -> band 0 .. band 30 ->
\* analysis -> destination of a Manager
FullChainEdges(m) ==
  LET eqs == eqNodesRef[m]
  IN  { <<srcNodeRef[m], gainRef[m]>>, <<gainRef[m], preGainRef[m]>>,
        <<preGainRef[m], eqs[1]>>, <<eqs[Len(eqs)], analyserRef[m]>>,
        <<analyserRef[m], destination>> }
      \cup { <<eqs[i], eqs[i + 1]>> : i \in 1..(Len(eqs) - 1) }

EdgesFrom(c, ns) == { e \in c : e[1] \in ns }

\* C5: when an ensureGraph() call completes with the equalizer enabled, the
\* Manager holds 31 filter bands and the outgoing connections of its source
\* and of its nodes are exactly the full chain, whatever was connected
\* before the call.
C5_FullChainExactly ==
  \A m \in Managers :
    (Completed(m) /\ opts[m].isEqEnabled) =>
      /\ Len(eqNodesRef[m]) = Len(EQ_FREQUENCIES)
      /\ EdgesFrom(conn, RefNodes(m)) = FullChainEdges(m)

\* the call found the shared source wired into another Manager's chain
C5_Witness ==
  \E m \in Managers, m2 \in Managers :
    /\ m # m2
    /\ Completed(m)
    /\ opts[m].isEqEnabled
    /\ srcNodeRef[m2] = srcNodeRef[m]
    /\ gainRef[m2] # null
    /\ <<gainRef[m2], preGainRef[m2]>> \in conn


\* C6: when an ensureGraph() call completes with the equalizer disabled,
\* pre-gain is connected directly to the analysis node and no filter band
\* has a connection from pre-gain or to the analysis node.
C6_BypassSkipsFilters ==
  \A m \in Managers :
    (Completed(m) /\ ~opts[m].isEqEnabled) =>
      /\ <<preGainRef[m], analyserRef[m]>> \in conn
      /\ \A n \in Range(eqNodesRef[m]) :
           /\ <<preGainRef[m], n>> \notin conn
           /\ <<n, analyserRef[m]>> \notin conn

\* the step toggles the bypass flag of Manager m
TogglesBypass(m) == opts'[m].isEqEnabled # opts[m].isEqEnabled

\* C7: a step that disables or re-enables the equalizer changes neither the
\* stored per-band gains nor the pre-gain, nor the value of any node, so
\* that after disabling and re-enabling every band has its last-set gain.
C7_BypassKeepsGains ==
  [][ \A m \in Managers :
        TogglesBypass(m) =>
          /\ opts'[m].eqGains = opts[m].eqGains
          /\ opts'[m].eqPreGain = opts[m].eqPreGain
          /\ nodes' = nodes
          /\ eqNodesRef' = eqNodesRef ]_vars

\* a band was set to 15 dB, the graph built, the equalizer disabled and
\* re-enabled: the band's node still has 15 dB
C7_Witness ==
  /\ lastOp = Op("setIsEqEnabled", 1, null, "done")
  /\ opts[1].isEqEnabled
  /\ updates = 1
  /\ opts[1].eqGains[1] = 15
  /\ eqNodesRef[1] # << >>
  /\ nodes[eqNodesRef[1][1]].gain = 15

\* C8: when an ensureGraph() call completes after a disposal has cleared
\* nodes, the singleton context and the element's one source binding are
\* the ones in use (no second context, no second source node), and none of
\* the Manager's gain, pre-gain, filter and analysis nodes is a node whose
\* reference a disposal cleared.
C8_FreshNodesAfterDisposal ==
  \A m \in Managers :
    (Completed(m) /\ retired # {}) =>
      /\ ctxCreated = 1
      /\ audioCtxRef[m] = GLOBAL_AUDIO_CTX
      /\ srcCreated[nodes[srcNodeRef[m]].element] = 1
      /\ srcNodeRef[m] = MEDIA_SRC[nodes[srcNodeRef[m]].element]
      /\ OwnNodes(m) \cap retired = {}
      /\ Cardinality(OwnNodes(m)) = Len(EQ_FREQUENCIES) + 3

\* the Manager had a graph, was disposed, mounted again and ensured again
C8_Witness ==
  \E m \in Managers :
    /\ Completed(m)
    /\ mounted[m]
    /\ eqAtDispose[m] # << >>
    /\ srcNodeRef[m] < eqAtDispose[m][1]

\* C9 as stated: after a disposal and a new ensureGraph() the filter nodes
\* of the Manager are the same nodes as before the disposal.
C9_SameFilterNodesAcrossRemount ==
  \A m \in Managers :
    (Completed(m) /\ eqAtDispose[m] # << >>) => eqNodesRef[m] = eqAtDispose[m]

\* the step is the disposal of Manager m
Disposes(m) == mounted[m] /\ ~mounted'[m]

\* the attributes of a filter node that are never retuned
FixedPart(n) == << n.kind, n.frequency, n.Q >>

\* C9 amended: the filter set lives as long as the Manager's scope.  While
\* a Manager holds filter nodes, a step other than its disposal leaves it
\* with the same 31 nodes, their type, frequency and Q unchanged; its
\* disposal empties the set; and a set that appears consists of 31 nodes
\* that did not exist before.
C9_FilterSetPerScope ==
  [][ \A m \in Managers :
        /\ (eqNodesRef[m] # << >> /\ ~Disposes(m)) =>
             /\ eqNodesRef'[m] = eqNodesRef[m]
             /\ \A n \in Range(eqNodesRef[m]) :
                  FixedPart(nodes'[n]) = FixedPart(nodes[n])
        /\ Disposes(m) => eqNodesRef'[m] = << >>
        /\ (eqNodesRef[m] = << >> /\ eqNodesRef'[m] # << >>) =>
             /\ Len(eqNodesRef'[m]) = Len(EQ_FREQUENCIES)
             /\ Range(eqNodesRef'[m]) \cap DOMAIN nodes = {}
             /\ Cardinality(Range(eqNodesRef'[m])) = Len(EQ_FREQUENCIES) ]_vars

\* after a disposal emptied its filter set, a call that ran without
\* suspending left the Manager with 31 filter nodes, none of them of the
\* old set
C9_Witness ==
  \E m \in Managers :
    /\ eqAtDispose[m] # << >>
    /\ Len(eqNodesRef[m]) = Len(EQ_FREQUENCIES)
    /\ Range(eqNodesRef[m]) \cap Range(eqAtDispose[m]) = {}
    /\ lastOp = Op("ensureGraph", m, lastOp.call, "done")

\* C10: the disposal of a Manager removes every outgoing connection of
\* every node it referenced (source, output gain, pre-gain, filter bands,
\* analysis), clears its node references, and leaves the identity table
\* and the context as they were.
C10_DisposalDisconnectsAndKeepsTable ==
  [][ \A m \in Managers :
        Disposes(m) =>
          /\ EdgesFrom(conn', RefNodes(m)) = {}
          /\ srcNodeRef'[m] = null /\ gainRef'[m] = null
          /\ preGainRef'[m] = null /\ analyserRef'[m] = null
          /\ eqNodesRef'[m] = << >>
          /\ MEDIA_SRC' = MEDIA_SRC
          /\ GLOBAL_AUDIO_CTX' = GLOBAL_AUDIO_CTX ]_vars

\* a Manager with a wired graph has just been disposed; the element is
\* still bound to its source node
C10_Witness ==
  /\ lastOp.op = "dispose"
  /\ eqAtDispose[lastOp.m] # << >>
  /\ \E e \in Elements : MEDIA_SRC[e] # null /\ MEDIA_SRC[e] \in DOMAIN nodes
  /\ RefNodes(lastOp.m) = {}

\* the step is handleGainChange(i, g) of Manager m
SetsBand(m, i, g) ==
  /\ lastOp'.op = "handleGainChange"
  /\ lastOp'.m = m
  /\ updates' = updates + 1
  /\ (i + 1) \in DOMAIN opts[m].eqGains
  /\ opts'[m].eqGains = [opts[m].eqGains EXCEPT ![i + 1] = g]

SetsVolumeZero(m) == opts[m].volume # 0 /\ opts'[m].volume = 0

\* C12: setting the volume to 0 sets the output gain node's value to 0 and
\* changes nothing else: the pre-gain value, every band's gain, the
\* analysis node's settings, the node references and the connections stay.
C12_VolumeZeroFrame ==
  [][ \A m \in Managers :
        SetsVolumeZero(m) =>
          /\ gainRef[m] # null => nodes'[gainRef[m]].gain = 0
          /\ DOMAIN nodes' = DOMAIN nodes
          /\ \A n \in DOMAIN nodes : n # gainRef[m] => nodes'[n] = nodes[n]
          /\ conn' = conn
          /\ UNCHANGED nodeRefVars
          /\ opts' = [opts EXCEPT ![m].volume = 0] ]_vars

\* the volume of a constructed graph has just been set to 0; pre-gain and
\* the bands hold their initial values
C12_Witness ==
  /\ lastOp = Op("setVolume", 1, null, "done")
  /\ gainRef[1] # null
  /\ nodes[gainRef[1]].gain = 0
  /\ nodes[preGainRef[1]].gain = InitialOpts.eqPreGain
  /\ conn # {}

\* the step is an ensureGraph() invocation of Manager m
Invokes(m) == calls' = calls + 1 /\ lastOp'.m = m

\* C13: an ensureGraph() call made while the element reference is absent
\* is a silent no-op: it does not fail, constructs no context, does not
\* touch the identity table, creates or connects no node and leaves no
\* suspended call behind.
C13_NoElementNoOp ==
  [][ \A m \in Managers :
        (Invokes(m) /\ audioRef[m] = null) =>
          /\ lastOp'.result = "noop"
          /\ UNCHANGED << GLOBAL_AUDIO_CTX, ctxState, ctxCreated >>
          /\ UNCHANGED << MEDIA_SRC, srcCreated >>
          /\ UNCHANGED << nodes, conn, nodeRefVars, audioCtxRef, pending >> ]_vars

\* a Manager mounted without an element has just been asked for its graph
C13_Witness ==
  /\ lastOp = Op("ensureGraph", 1, lastOp.call, "noop")
  /\ mounted[1]
  /\ audioRef[1] = null
  /\ GLOBAL_AUDIO_CTX = null
  /\ calls > 0

\* C14: when the host cannot produce a context, ensureGraph() fails to its
\* caller and nothing is retried: the singleton stays absent, no source
\* binding and no node is created, nothing is connected and no call is left
\* suspended; and every call that finds the singleton absent attempts the
\* construction, so that a later call can succeed.
C14_ContextUnavailable ==
  [][ \A m \in Managers :
        /\ (Invokes(m) /\ lastOp'.result = "throw") =>
             /\ GLOBAL_AUDIO_CTX' = null
             /\ UNCHANGED << ctxState, ctxCreated, MEDIA_SRC, srcCreated >>
             /\ UNCHANGED << nodes, conn, nodeRefVars, pending, doneCalls >>
        /\ (Invokes(m) /\ audioRef[m] # null /\ GLOBAL_AUDIO_CTX = null) =>
             \/ lastOp'.result = "throw"
             \/ ctxCreated' = ctxCreated + 1 /\ GLOBAL_AUDIO_CTX' # null ]_vars

\* the first call failed for want of a context, the second constructed the
\* context and built the graph
C14_Witness ==
  /\ lastOp = Op("ensureGraph", lastOp.m, 2, "done")
  /\ 1 \notin doneCalls
  /\ pending = << >>
  /\ suspends = 0
  /\ ctxCreated = 1
  /\ ctxState = "running"

\* C19: a disposed Manager stays disposed: whatever resumes afterwards, the
\* node references of a Manager whose scope is not alive are cleared, and
\* no node whose reference a disposal cleared has a connection.
C19_DisposedStaysDisposed ==
  /\ \A m \in Managers : ~mounted[m] => RefNodes(m) = {}
  /\ \A n \in retired : OutEdges(conn, n) = {}

\* Manager m holds its source, gain, pre-gain, 31 bands and analysis node
HasGraph(m) ==
  /\ srcNodeRef[m] # null
  /\ gainRef[m] # null
  /\ preGainRef[m] # null
  /\ Len(eqNodesRef[m]) = Len(EQ_FREQUENCIES)
  /\ analyserRef[m] # null

\* the step completes an ensureGraph() call of Manager m
CompletesCall(m) == doneCalls' # doneCalls /\ lastOp'.m = m

\* the element the call completed by this step was invoked for
CallElement(m) ==
  IF lastOp'.op = "resume" THEN Head(pending).audioEl ELSE audioRef[m]

\* C20: ensureGraph() is idempotent on a live Manager: a call that completes
\* on a Manager that already holds its graph, for the same element, creates
\* no node, keeps every node reference and every node value, and leaves the
\* Manager's connections the full chain (the connections are untouched when
\* they were the full chain already); the filter set has 0 or 31 nodes.
C20_EnsureGraphIdempotent ==
  [][ \A m \in Managers :
        /\ Len(eqNodesRef'[m]) \in {0, Len(EQ_FREQUENCIES)}
        /\ ( /\ mounted[m]
             /\ HasGraph(m)
             /\ CompletesCall(m)
             /\ nodes[srcNodeRef[m]].element = CallElement(m) ) =>
             /\ nodes' = nodes
             /\ UNCHANGED nodeRefVars
             /\ EdgesFrom(conn', RefNodes(m)) = FullChainEdges(m)
             /\ EdgesFrom(conn, RefNodes(m)) = FullChainEdges(m) => conn' = conn ]_vars

\* two calls of one Manager have completed and only the nodes of one graph
\* exist
C20_Witness ==
  /\ doneCalls = {1, 2}
  /\ lastOp.call = 2
  /\ lastOp.result = "done"
  /\ mounted[lastOp.m]
  /\ retired = {}
  /\ Len(nodes) = Len(EQ_FREQUENCIES) + 4

\* the step before was a completed toggle whose play request was refused
RefusedJustNow(m) == Completed(m) /\ lastPlay = "refused"

\* C15: every error is converted to the user-visible message: after an
\* ensureGraph() failure inside the play/pause toggle (context unavailable,
\* resume rejected), after a refused play request and after a media error
\* of the element, the error message slot of the mounted player is
\* non-empty.
C15_EveryErrorSetsErrMsg ==
  \A m \in Managers :
    (mounted[m] /\ lastOp.m = m) =>
      /\ lastOp.result = "throw" => errMsg # ""
      /\ RefusedJustNow(m) => errMsg # ""
      /\ lastOp.result = "mediaError" => errMsg # ""

\* the step completes a toggle of Manager m whose play request is refused
PlayIsRefused(m) ==
  /\ CompletesCall(m)
  /\ paused
  /\ lastPlay' = "refused"

\* C16: when the host refuses the play request of a toggle, a message is
\* set and the transport state is unchanged: isPlaying was and stays false,
\* the element was and stays paused, and no further call or request is
\* issued.
C16_PlayRefusedKeepsTransport ==
  [][ \A m \in Managers :
        (PlayIsRefused(m) /\ mounted[m]) =>
          /\ errMsg' # ""
          /\ paused'
          /\ ~isPlaying /\ ~isPlaying'
          /\ Len(pending') <= Len(pending)
          /\ calls' <= calls + 1 ]_vars

\* a toggle that waited for the context has been refused by the host
C16_Witness ==
  /\ lastOp = Op("resume", 1, lastOp.call, "done")
  /\ lastPlay = "refused"
  /\ mounted[1]
  /\ errMsg = "Failed to play()"
  /\ paused
  /\ ~isPlaying

\* the step runs the render callback
IsTick == lastOp'.op = "tick" /\ frames' # frames

\* C17: once the visualizer's scope is disposed its render callback never
\* runs again: the disposal cancels the pending frame, no frame is pending
\* while the scope is not alive, and no tick happens then, whatever ticks
\* and display-mode changes came before.
C17_NoTickAfterDisposal ==
  [][ \A m \in Managers :
        /\ (Disposes(m) /\ limit.player) => frames' = {}
        /\ (~mounted'[m] /\ m \in limit.managers) => frames' = {}
        /\ (IsTick /\ lastOp'.m = m) => mounted[m] ]_vars

\* the visualizer has drawn the spectrum, its display mode was changed, and
\* its scope has just been disposed
C17_Witness ==
  /\ lastOp.op = "dispose"
  /\ canvas
  /\ rafRef # null
  /\ frames = {}
  /\ visMode # "bars+wave"
  /\ analyserRef[1] = null
  /\ doneCalls # {}

\* the render loop of the player is running
LoopAlive == mounted[1] /\ canvas

\* C18: while the visualizer is mounted with a canvas the loop keeps
\* ticking: a frame is always pending, and unless the visualizer goes away
\* ticks happen again and again, also when no analysis node exists and
\* whatever errors occur; and once the analysis node exists a later tick
\* draws from it.
C18_LoopKeepsTicking ==
  /\ [](LoopAlive => frames # {})
  /\ ([]<>~LoopAlive) \/ ([]<><<\E m \in Managers : Tick(m)>>_vars)
  /\ (LoopAlive /\ analyserRef[1] # null) ~>
       (~LoopAlive \/ analyserRef[1] = null
          \/ (lastOp.op = "tick" /\ lastOp.result \in VisModes))

\* a tick has drawn from the analysis node after an ensureGraph() failure
C18_Witness ==
  /\ lastOp.op = "tick"
  /\ lastOp.result \in VisModes
  /\ LoopAlive
  /\ calls = 2
  /\ Cardinality(doneCalls) = 1
  /\ pending = << >>

\* Managers m and m2 were given the same element and both hold the graph a
\* completed ensureGraph() built
ShareElement(m, m2) ==
  /\ m # m2
  /\ mounted[m] /\ mounted[m2]
  /\ HasGraph(m) /\ HasGraph(m2)
  /\ srcNodeRef[m] = srcNodeRef[m2]

\* C21: when two Managers given the same element have both completed
\* ensureGraph(), the disposal of one leaves the path of the other intact:
\* the shared source node is still connected to the survivor's output gain
\* node and the survivor's chain still reaches the destination.
C21_SurvivorKeepsPath ==
  [][ \A m \in Managers, m2 \in Managers :
        (ShareElement(m, m2) /\ Disposes(m)) =>
          /\ <<srcNodeRef[m2], gainRef[m2]>> \in conn'
          /\ FullChainEdges(m2) \subseteq conn' ]_vars

\* C22: at every moment the visualizer has at most one render callback
\* pending, and it is the one whose handle rafRef holds: neither a tick nor
\* a display-mode change starts a second chain of frames while one is
\* scheduled.
C22_OneFramePending ==
  /\ Cardinality(frames) <= 1
  /\ \A f \in frames : f.id = rafRef
  /\ \A f \in frames : f.mode = visMode

\* the display mode was changed while a frame was pending, and the frame
\* requested for the new mode has run and requested its successor
C22_Witness ==
  /\ lastOp.op = "tick"
  /\ mounted[1]
  /\ visMode # "bars+wave"
  /\ Cardinality(frames) = 1
  /\ \E f \in frames : f.mode = visMode /\ f.id = rafRef

====
